---------------------------- MODULE Spec2Model ----------------------------
(***************************************************************************)
(* IntelliStudy: the attention / focus classification engine.              *)
(*                                                                         *)
(*   WebcamTracker.predict   pose smoothing buffers, phone counter         *)
(*   App.classifyMoment      the ordered rule chain                        *)
(*   App timer loop          the 1 Hz slice sampler, start / pause / stop  *)
(*   calculateSessionMetrics the reduction of a slice sequence             *)
(*                                                                         *)
(* The specifications share the variables:                                 *)
(*   SpecClassify  classifyMoment applied to every input                   *)
(*   SpecDomain    classifyDomain applied to domain names                  *)
(*   SpecTracker   the inference loop of WebcamTracker                     *)
(*   SpecPhone     the inference loop with the history of sampled frames   *)
(*   SpecMetrics   calculateSessionMetrics applied to slice sequences      *)
(*   Spec          the App component: session life cycle and sampler       *)
(***************************************************************************)
EXTENDS Integers, Sequences, FiniteSets, TLC

VARIABLES
    \* ---- WebcamTracker (src/components/WebcamTracker.tsx)
    pitchBuffer,            \* pitchBuffer.current
    yawBuffer,              \* yawBuffer.current
    phoneDetectionCount,    \* phoneDetectionCount.current
    frameCounter,           \* frameCounter.current, stored modulo PHONE_SAMPLE_PERIOD
    phoneDetectedInFrame,   \* the local of the last tick (line 73)
    faceFound,              \* faceResults.faceLandmarks.length > 0 at the last tick
    cleared,                \* the last tick ran the buffer reset of lines 126-127
    newState,               \* the TrackingState last handed to onUpdate, NULL before
    pose,                   \* environment: the head pose the camera currently sees
    poseChanges,            \* environment: how often the pose has changed
    outcome,                \* how the last tick ended: "none", "ok", or which detector threw
    phoneRun,               \* history: length of the current run of sampled frames with
                            \* (positive) or without (negative) a phone detection
    \* ---- WebcamTracker as mounted by App
    loop,                   \* the requestAnimationFrame chain of the tracking effect
    camera,                 \* the MediaStream of the last WebcamTracker mounted:
                            \* "off" (none yet), "live", "stopped"
    teardown,               \* history: the cleanups of the last unmount, in order
    \* ---- classifyMoment applied as a pure function
    cmVision, cmBrowser, cmResult,
    \* ---- classifyDomain applied as a pure function
    cdDomain, cdResult,     \* cdResult is "" until the function has been applied
    \* ---- calculateSessionMetrics applied as a pure function
    mSlices, mResult,
    \* ---- App (src/unnamed/part_003): state as of the last render
    appState, user, subject, trackingState, browserState, isExtensionConnected,
    sessionData, elapsedSeconds,
    \* ---- App: refs, timer, clock
    trackingStateRef, browserStateRef, lastTickRef,
    interval,               \* how many setInterval timers of the timer effect are active
    now,                    \* Date.now()
    \* ---- App: the sampler's queued state updates, applied by the next render
    pendSlices, pendElapsed,
    saved                   \* the argument of db.saveSession at the stop of this session

trackerVars == <<pitchBuffer, yawBuffer, phoneDetectionCount, frameCounter,
                 phoneDetectedInFrame, faceFound, cleared, newState, pose, poseChanges,
                 outcome, phoneRun>>
lifeVars == <<loop, camera, teardown>>
cmVars == <<cmVision, cmBrowser, cmResult, mSlices, mResult, cdDomain, cdResult>>
appVars == <<appState, user, subject, trackingState, browserState, isExtensionConnected,
             sessionData, elapsedSeconds, trackingStateRef, browserStateRef, lastTickRef,
             interval, now, pendSlices, pendElapsed, saved>>
vars == <<trackerVars, lifeVars, cmVars, appVars>>

-----------------------------------------------------------------------------
(* Values *)

\* JavaScript null (also: "no value yet")
NULL == [null |-> TRUE]

Min(a, b) == IF a < b THEN a ELSE b
Max(a, b) == IF a > b THEN a ELSE b

FocusStatus == {"FOCUSED", "PARTIAL", "DISTRACTED"}
DistractionType == {"NONE", "PHONE", "WEB_DISTRACTION", "TAB_SWITCH", "LOOKING_AWAY", "ABSENT"}
DomainCategory == {"STUDY", "NON_STUDY", "NEUTRAL"}

TrackingState == [isFacePresent : BOOLEAN, isHeadDown : BOOLEAN,
                  isLookingAtScreen : BOOLEAN, isPhoneDetected : BOOLEAN]

\* CONSTANTS of types.ts
HEAD_DOWN_PITCH_THRESHOLD == 25
LOOKING_AWAY_YAW_THRESHOLD == 25
POSE_BUFFER_SIZE == 15
PHONE_DETECTION_CONFIDENCE == 3
\* literals of WebcamTracker.predict
PHONE_SAMPLE_PERIOD == 5
PHONE_COUNT_MAX == 10

DEFAULT_BROWSER_STATE ==
    [url |-> "https://canvas.school.edu/courses/101", domain |-> "canvas.school.edu",
     category |-> "STUDY", title |-> "LMS - Calculus 101"]

-----------------------------------------------------------------------------
(* App.classifyMoment: first matching rule wins *)

\* faulty variant: the web rule is tested before the phone rule
classifyMomentWebFirst(vision, browser) ==
    IF browser.category = "NON_STUDY"
        THEN [status |-> "DISTRACTED", type |-> "WEB_DISTRACTION"]
    ELSE IF vision # NULL /\ vision.isPhoneDetected
        THEN [status |-> "DISTRACTED", type |-> "PHONE"]
    ELSE IF vision = NULL \/ ~vision.isFacePresent
        THEN [status |-> "DISTRACTED", type |-> "ABSENT"]
    ELSE IF vision.isHeadDown
        THEN [status |-> "DISTRACTED", type |-> "PHONE"]
    ELSE IF ~vision.isLookingAtScreen
        THEN [status |-> "PARTIAL", type |-> "LOOKING_AWAY"]
    ELSE IF browser.category = "STUDY"
        THEN [status |-> "FOCUSED", type |-> "NONE"]
    ELSE [status |-> "PARTIAL", type |-> "NONE"]

\* faulty variant: a distracting site is tagged TAB_SWITCH
classifyMomentTabSwitch(vision, browser) ==
    IF vision # NULL /\ vision.isPhoneDetected
        THEN [status |-> "DISTRACTED", type |-> "PHONE"]
    ELSE IF browser.category = "NON_STUDY"
        THEN [status |-> "DISTRACTED", type |-> "TAB_SWITCH"]
    ELSE IF vision = NULL \/ ~vision.isFacePresent
        THEN [status |-> "DISTRACTED", type |-> "ABSENT"]
    ELSE IF vision.isHeadDown
        THEN [status |-> "DISTRACTED", type |-> "PHONE"]
    ELSE IF ~vision.isLookingAtScreen
        THEN [status |-> "PARTIAL", type |-> "LOOKING_AWAY"]
    ELSE IF browser.category = "STUDY"
        THEN [status |-> "FOCUSED", type |-> "NONE"]
    ELSE [status |-> "PARTIAL", type |-> "NONE"]

\* faulty variant: without a TrackingState the user counts as present
classifyMomentBlindPresent(vision, browser) ==
    IF vision # NULL /\ vision.isPhoneDetected
        THEN [status |-> "DISTRACTED", type |-> "PHONE"]
    ELSE IF browser.category = "NON_STUDY"
        THEN [status |-> "DISTRACTED", type |-> "WEB_DISTRACTION"]
    ELSE IF vision # NULL /\ ~vision.isFacePresent
        THEN [status |-> "DISTRACTED", type |-> "ABSENT"]
    ELSE IF vision # NULL /\ vision.isHeadDown
        THEN [status |-> "DISTRACTED", type |-> "PHONE"]
    ELSE IF vision # NULL /\ ~vision.isLookingAtScreen
        THEN [status |-> "PARTIAL", type |-> "LOOKING_AWAY"]
    ELSE IF browser.category = "STUDY"
        THEN [status |-> "FOCUSED", type |-> "NONE"]
    ELSE [status |-> "PARTIAL", type |-> "NONE"]

classifyMoment(vision, browser) ==
    IF vision # NULL /\ vision.isPhoneDetected
        THEN [status |-> "DISTRACTED", type |-> "PHONE"]
    ELSE IF browser.category = "NON_STUDY"
        THEN [status |-> "DISTRACTED", type |-> "WEB_DISTRACTION"]
    ELSE IF vision = NULL \/ ~vision.isFacePresent
        THEN [status |-> "DISTRACTED", type |-> "ABSENT"]
    ELSE IF vision.isHeadDown
        THEN [status |-> "DISTRACTED", type |-> "PHONE"]
    ELSE IF ~vision.isLookingAtScreen
        THEN [status |-> "PARTIAL", type |-> "LOOKING_AWAY"]
    ELSE IF browser.category = "STUDY"
        THEN [status |-> "FOCUSED", type |-> "NONE"]
    ELSE [status |-> "PARTIAL", type |-> "NONE"]

-----------------------------------------------------------------------------
(* WebcamTracker: the inference loop *)

\* Bound on the environment: how often the user's head pose changes in a run
MaxPoseChanges == 1

\* Head poses calculateHeadPose can return: facing the screen, head down,
\* turned away (a negative yaw, so that Math.abs matters)
PoseSamples == { [pitch |-> 0, yaw |-> 0], [pitch |-> 60, yaw |-> 0], [pitch |-> 0, yaw |-> -60] }

RECURSIVE Sum(_)
\* buf.reduce((a, b) => a + b, 0)
Sum(buf) == IF buf = <<>> THEN 0 ELSE Head(buf) + Sum(Tail(buf))

Abs(x) == IF x < 0 THEN -x ELSE x

\* faulty variant: the shift is forgotten
pushPoseNoShift(buf, v) == Append(buf, v)

\* push, then shift when the length exceeds POSE_BUFFER_SIZE
pushPose(buf, v) ==
    LET pushed == Append(buf, v)
    IN  IF Len(pushed) > POSE_BUFFER_SIZE THEN Tail(pushed) ELSE pushed

\* faulty variant: >= instead of >
headDownInclusive(pitches) == Sum(pitches) >= HEAD_DOWN_PITCH_THRESHOLD * Len(pitches)

\* avgPitch > HEAD_DOWN_PITCH_THRESHOLD, with avgPitch = Sum / length
\* (the buffer is not empty here: a sample was just pushed)
headDown(pitches) == Sum(pitches) > HEAD_DOWN_PITCH_THRESHOLD * Len(pitches)

\* Math.abs(avgYaw) < LOOKING_AWAY_YAW_THRESHOLD && !newState.isHeadDown
lookingAtScreen(yaws, isHeadDown) ==
    Abs(Sum(yaws)) < LOOKING_AWAY_YAW_THRESHOLD * Len(yaws) /\ ~isHeadDown

\* faulty variant: the increment is not clamped
updatePhoneCountNoClamp(count, detected) ==
    IF detected THEN count + 1 ELSE Max(count - 1, 0)

\* faulty variant: at the ceiling a miss does not count down
updatePhoneCountSticky(count, detected) ==
    IF detected THEN Min(count + 1, PHONE_COUNT_MAX)
    ELSE IF count = PHONE_COUNT_MAX THEN count ELSE Max(count - 1, 0)

\* the persistence counter update of a sampled frame
updatePhoneCount(count, detected) ==
    IF detected THEN Min(count + 1, PHONE_COUNT_MAX) ELSE Max(count - 1, 0)

\* faulty variant: > instead of >=
phoneConfidentStrict(count) == count > PHONE_DETECTION_CONFIDENCE

\* phoneDetectionCount.current >= CONSTANTS.PHONE_DETECTION_CONFIDENCE
phoneConfident(count) == count >= PHONE_DETECTION_CONFIDENCE

\* faulty variant: the object detector is asked on every frame
sampledFrameAlways(fc) == fc % 1 = 0

\* frameCounter.current % 5 === 0
sampledFrame(fc) == fc % PHONE_SAMPLE_PERIOD = 0

\* the longest runs of equal sampled results the history keeps apart
MaxDetectionRun == PHONE_DETECTION_CONFIDENCE
MaxMissRun == PHONE_COUNT_MAX - PHONE_DETECTION_CONFIDENCE + 1

\* the run of equal sampled results after one more sampled frame
nextRun(run, detected) ==
    IF detected THEN (IF run > 0 THEN Min(run + 1, MaxDetectionRun) ELSE 1)
    ELSE (IF run < 0 THEN Max(run - 1, 0 - MaxMissRun) ELSE 0 - 1)

LoopStates == {"unmounted", "starting", "scheduled", "dead"}
CameraStates == {"off", "live", "stopped"}

\* WebcamTracker mounted, camera and models ready, predict() called once
\* (line 153) and the next frame requested (line 150)
LoopRunning == loop = "scheduled" /\ camera = "live" /\ teardown = <<>>

\* WebcamTracker not mounted
LoopIdle == loop = "unmounted" /\ camera = "off" /\ teardown = <<>>

TrackerInit ==
    /\ pitchBuffer = <<>>
    /\ yawBuffer = <<>>
    /\ phoneDetectionCount = 0
    /\ frameCounter = 0
    /\ phoneDetectedInFrame = FALSE
    /\ faceFound = FALSE
    /\ cleared = FALSE
    /\ newState = NULL
    /\ pose \in PoseSamples
    /\ poseChanges = 0
    /\ outcome = "none"
    /\ phoneRun = 0

\* the tracker of a specification that does not run it
TrackerIdle == TrackerInit /\ pose = [pitch |-> 0, yaw |-> 0]

\* One inference tick. face: the face landmarker found a face; phone: the
\* object detector (asked on sampled frames only) reports a phone-class object.
predict(face, phone) ==
    LET detected == sampledFrame(frameCounter) /\ phone
        count    == IF sampledFrame(frameCounter)
                        THEN updatePhoneCount(phoneDetectionCount, detected)
                        ELSE phoneDetectionCount
        pitches  == IF face THEN pushPose(pitchBuffer, pose.pitch) ELSE pitchBuffer
        yaws     == IF face THEN pushPose(yawBuffer, pose.yaw) ELSE yawBuffer
        down     == face /\ headDown(pitches)
        looking  == face /\ lookingAtScreen(yaws, down)
        reset    == ~face /\ Len(pitchBuffer) > 0
    IN  /\ phoneDetectedInFrame' = detected
        /\ phoneDetectionCount' = count
        \* frameCounter.current++ ; only its residue is ever read (line 74)
        /\ frameCounter' = (frameCounter + 1) % PHONE_SAMPLE_PERIOD
        /\ faceFound' = face
        /\ pitchBuffer' = IF reset THEN <<>> ELSE pitches
        /\ yawBuffer' = IF reset THEN <<>> ELSE yaws
        /\ cleared' = reset
        /\ newState' = [isFacePresent |-> face, isHeadDown |-> down,
                        isLookingAtScreen |-> looking,
                        isPhoneDetected |-> phoneConfident(count)]
        /\ outcome' = "ok"
        \* animationFrameId = requestAnimationFrame(predict)
        /\ loop' = "scheduled"
        /\ UNCHANGED <<pose, poseChanges, camera, teardown>>

\* the browser runs the requested animation frame callback
Predict ==
    /\ loop = "scheduled"
    /\ \E face \in BOOLEAN, phone \in BOOLEAN : predict(face, phone)
    /\ UNCHANGED phoneRun
    /\ UNCHANGED <<cmVars, appVars>>

\* the same tick, with the history of sampled results kept
PredictCounted ==
    /\ loop = "scheduled"
    /\ \E face \in BOOLEAN, phone \in BOOLEAN :
          /\ predict(face, phone)
          /\ phoneRun' = IF sampledFrame(frameCounter) THEN nextRun(phoneRun, phone)
                                                       ELSE phoneRun
    /\ UNCHANGED <<cmVars, appVars>>

\* A tick in which a detector throws: faceLandmarker.detectForVideo (line 69)
\* or, on a sampled frame, objectDetector.detectForVideo (line 75). predict has
\* no try/catch: the async function rejects at the throw, before any ref is
\* written and before requestAnimationFrame (line 150).
predictThrows(thrower) ==
    /\ outcome' = thrower
    /\ loop' = "dead"

PredictThrows ==
    /\ loop = "scheduled"
    /\ \E thrower \in {"faceThrew"} \cup (IF sampledFrame(frameCounter) THEN {"objectThrew"} ELSE {}) :
           predictThrows(thrower)
    /\ UNCHANGED <<pitchBuffer, yawBuffer, phoneDetectionCount, frameCounter,
                   phoneDetectedInFrame, faceFound, cleared, newState, pose, poseChanges,
                   phoneRun, camera, teardown>>
    /\ UNCHANGED <<cmVars, appVars>>

\* Environment: the user moves the head
MoveHead ==
    /\ poseChanges < MaxPoseChanges
    /\ \E p \in PoseSamples \ {pose} : pose' = p
    /\ poseChanges' = poseChanges + 1
    /\ UNCHANGED <<pitchBuffer, yawBuffer, phoneDetectionCount, frameCounter,
                   phoneDetectedInFrame, faceFound, cleared, newState, outcome, phoneRun>>
    /\ UNCHANGED <<lifeVars, cmVars, appVars>>

-----------------------------------------------------------------------------
(* classifyMoment as a pure function: every input, then one application *)

VisionInputs == TrackingState \cup {NULL}

BrowserInputs ==
    { DEFAULT_BROWSER_STATE,
      [url |-> "https://canvas.edu", domain |-> "canvas.edu", category |-> "STUDY", title |-> "LMS"],
      [url |-> "https://youtube.com", domain |-> "youtube.com", category |-> "NON_STUDY", title |-> "YouTube"],
      [url |-> "https://news.example.com/", domain |-> "news.example.com", category |-> "NEUTRAL", title |-> "News"] }

ClassifyIdle ==
    /\ cmVision = NULL /\ cmBrowser = DEFAULT_BROWSER_STATE /\ cmResult = NULL
    /\ mSlices = <<>> /\ mResult = NULL
    /\ cdDomain = "" /\ cdResult = ""

ClassifyInit ==
    /\ cmVision \in VisionInputs /\ cmBrowser \in BrowserInputs /\ cmResult = NULL
    /\ mSlices = <<>> /\ mResult = NULL
    /\ cdDomain = "" /\ cdResult = ""

Classify ==
    /\ cmResult = NULL
    /\ cmResult' = classifyMoment(cmVision, cmBrowser)
    /\ UNCHANGED <<cmVision, cmBrowser, mSlices, mResult, cdDomain, cdResult>>
    /\ UNCHANGED <<trackerVars, lifeVars, appVars>>

-----------------------------------------------------------------------------
(* Strings: String.prototype.includes / toLowerCase, URL.hostname *)

includes(s, needle) ==
    \E i \in 1..(Len(s) - Len(needle) + 1) : SubSeq(s, i, i + Len(needle) - 1) = needle

UpperCase == "ABCDEFGHIJKLMNOPQRSTUVWXYZ"
LowerCase == "abcdefghijklmnopqrstuvwxyz"

lowerChar(c) ==
    IF \E i \in 1..Len(UpperCase) : SubSeq(UpperCase, i, i) = c
        THEN LET i == CHOOSE j \in 1..Len(UpperCase) : SubSeq(UpperCase, j, j) = c
             IN  SubSeq(LowerCase, i, i)
        ELSE c

RECURSIVE toLowerCase(_)
toLowerCase(s) ==
    IF s = "" THEN "" ELSE lowerChar(SubSeq(s, 1, 1)) \o toLowerCase(SubSeq(s, 2, Len(s)))

startsWith(s, prefix) == Len(s) >= Len(prefix) /\ SubSeq(s, 1, Len(prefix)) = prefix

\* the text after the scheme of an http(s) URL, "" when there is no such scheme
afterScheme(url) ==
    IF startsWith(toLowerCase(url), "https://") THEN SubSeq(url, 9, Len(url))
    ELSE IF startsWith(toLowerCase(url), "http://") THEN SubSeq(url, 8, Len(url))
    ELSE ""

\* the host ends at the first of / ? # :
hostEnd(rest) ==
    LET stops == { i \in 1..Len(rest) : SubSeq(rest, i, i) \in {"/", "?", "#", ":"} }
    IN  IF stops = {} THEN Len(rest) ELSE (CHOOSE i \in stops : \A j \in stops : i <= j) - 1

\* new URL(url).hostname: NULL stands for the TypeError of an unparsable url
hostname(url) ==
    LET rest == afterScheme(url)
        host == SubSeq(rest, 1, hostEnd(rest))
    IN  IF host = "" THEN NULL ELSE [hostname |-> toLowerCase(host)]

-----------------------------------------------------------------------------
(* App: browser context *)

classifyDomain(domain) ==
    LET d == toLowerCase(domain)
    IN  IF includes(d, "canvas") \/ includes(d, "wikipedia") \/ includes(d, "github")
           \/ includes(d, "stackoverflow") \/ includes(d, "edu")
            THEN "STUDY"
        ELSE IF includes(d, "youtube") \/ includes(d, "instagram") \/ includes(d, "twitter")
           \/ includes(d, "facebook") \/ includes(d, "tiktok") \/ includes(d, "reddit")
            THEN "NON_STUDY"
        ELSE "NEUTRAL"

\* Domain names classifyDomain is applied to: prefix, name and suffix in mixed
\* case, with names of both lists, of neither, and names that contain "edu"
DomainPrefixes == {"", "www.", "Edu."}
DomainWords ==
    {"canvas", "Wikipedia", "GITHUB", "stackoverflow", "youtube", "Instagram", "twitter",
     "FaceBook", "tiktok", "REDDIT", "mit", "schedule", "Education", "news", "example"}
DomainSuffixes == {".com", ".edu", ".EDU", ".org"}
DomainInputs ==
    { pre \o word \o suf : pre \in DomainPrefixes, word \in DomainWords, suf \in DomainSuffixes }

DomainInit ==
    /\ cdDomain \in DomainInputs /\ cdResult = ""
    /\ cmVision = NULL /\ cmBrowser = DEFAULT_BROWSER_STATE /\ cmResult = NULL
    /\ mSlices = <<>> /\ mResult = NULL

ClassifyDomain ==
    /\ cdResult = ""
    /\ cdResult' = classifyDomain(cdDomain)
    /\ UNCHANGED <<cmVision, cmBrowser, cmResult, mSlices, mResult, cdDomain>>
    /\ UNCHANGED <<trackerVars, lifeVars, appVars>>

\* the two simulation buttons
SIM_STUDY_STATE ==
    [url |-> "https://canvas.edu", domain |-> "canvas.edu", category |-> "STUDY", title |-> "LMS"]
SIM_DISTRACTION_STATE ==
    [url |-> "https://youtube.com", domain |-> "youtube.com", category |-> "NON_STUDY",
     title |-> "YouTube"]

\* Environment: the message events the window can receive
Messages ==
    { [fromWindow |-> TRUE, type |-> "INTELLI_STUDY_UPDATE",
       url |-> "https://News.Example.com/today", title |-> ""],
      [fromWindow |-> TRUE, type |-> "INTELLI_STUDY_UPDATE",
       url |-> "about-blank", title |-> "New Tab"],
      [fromWindow |-> FALSE, type |-> "INTELLI_STUDY_UPDATE",
       url |-> "https://www.reddit.com/r/all", title |-> "reddit"],
      [fromWindow |-> TRUE, type |-> "OTHER",
       url |-> "https://www.reddit.com/r/all", title |-> "reddit"] }

-----------------------------------------------------------------------------
(* App: session life cycle, sampler, rendering *)

\* Bounds of the App specification
MaxClockSteps == 4      \* how many times the clock advances
ClockStep == 500        \* milliseconds per clock advance

AppStates == {"AUTH", "HOME", "SETUP", "RUNNING", "PAUSED", "SUMMARY", "ANALYTICS", "PROJECT_VIEW"}

\* TrackingStates predict can hand to onUpdate, one for every rule of
\* classifyMoment that reads the vision state: no face, head down, looking
\* away, looking at the screen, and a phone in view of a user at the screen
TrackerOutputs ==
    { ts \in TrackingState :
        /\ ~ts.isFacePresent => (~ts.isHeadDown /\ ~ts.isLookingAtScreen)
        /\ ~(ts.isHeadDown /\ ts.isLookingAtScreen)
        /\ ts.isPhoneDetected => (ts.isFacePresent /\ ts.isLookingAtScreen) }

\* number | null is modelled as a tuple: <<>> for null, <<t>> for the number t
NoTime == <<>>
Time(t) == <<t>>

\* topic and plannedMinutes are carried along unread and left out
EMPTY_SESSION == [subject |-> "", startTime |-> NoTime, endTime |-> NoTime, slices |-> <<>>]

\* faulty variant: Math.floor instead of Math.round
MathFloor(num, den) == num \div den

\* Math.round(num / den) for num >= 0: halves round up
MathRound(num, den) == (2 * num + den) \div (2 * den)

StartOfClock == 2 * ClockStep

AppInit ==
    /\ appState = "AUTH"
    /\ user = NULL
    /\ subject = ""
    /\ trackingState = NULL
    /\ browserState = DEFAULT_BROWSER_STATE
    /\ isExtensionConnected = FALSE
    /\ sessionData = EMPTY_SESSION
    /\ elapsedSeconds = 0
    /\ trackingStateRef = NULL
    /\ browserStateRef = DEFAULT_BROWSER_STATE
    /\ lastTickRef = 0
    /\ interval = 0
    /\ now = StartOfClock
    /\ pendSlices = <<>>
    /\ pendElapsed = 0
    /\ saved = NULL

\* faulty variant: the updater keeps the new slices only, without ...prev.slices
queuedSessionReplace ==
    IF pendSlices = <<>> THEN sessionData ELSE [sessionData EXCEPT !.slices = pendSlices]

\* setSessionData((prev) => ({ ...prev, slices: [...prev.slices, ...newSlices] }))
queuedSession == [sessionData EXCEPT !.slices = @ \o pendSlices]
\* setElapsedSeconds((prev) => prev + secondsPassed)
queuedElapsed == elapsedSeconds + pendElapsed

\* faulty variant: the else branch that resets lastTickRef is missing
timerEffectLastTickKept(app, last) ==
    IF app = appState THEN last
    ELSE IF app = "RUNNING" THEN (IF last = 0 THEN now ELSE last)
    ELSE last

\* The timer effect (deps [appState, classifyMoment]): on a change of appState
\* the cleanup clears the interval, then the effect body runs.
timerEffectLastTick(app, last) ==
    IF app = appState THEN last
    ELSE IF app = "RUNNING" THEN (IF last = 0 THEN now ELSE last)
    ELSE 0

\* faulty variant: the effect returns no cleanup, so no timer is ever cleared
timerEffectIntervalNoCleanup(app) ==
    IF app = appState THEN interval
    ELSE interval + (IF app = "RUNNING" THEN 1 ELSE 0)

\* The cleanup clears the timer its run registered (one if that run saw
\* RUNNING, else clearInterval(undefined)); the new run registers one timer
\* if it sees RUNNING.
timerEffectInterval(app) ==
    IF app = appState THEN interval
    ELSE (interval - (IF appState = "RUNNING" THEN 1 ELSE 0))
         + (IF app = "RUNNING" THEN 1 ELSE 0)

\* A render and its effects: every queued update is applied, the refs are
\* synchronised, the timer effect runs. last is lastTickRef.current before it.
commit(app, track, brow, ext, sess, elapsed, last) ==
    /\ appState' = app
    /\ trackingState' = track
    /\ browserState' = brow
    /\ isExtensionConnected' = ext
    /\ sessionData' = sess
    /\ elapsedSeconds' = elapsed
    /\ trackingStateRef' = track
    /\ browserStateRef' = brow
    /\ lastTickRef' = timerEffectLastTick(app, last)
    /\ interval' = timerEffectInterval(app)
    /\ pendSlices' = <<>>
    /\ pendElapsed' = 0

\* the session screen, the only one that renders <WebcamTracker />
sessionScreen(app) == app \in {"RUNNING", "PAUSED"}

\* The cleanups that run when the session screen is left, in the order they
\* run: WebcamTracker's effects in declaration order (the camera effect, then
\* the tracking effect, which has a cleanup only once it got past its early
\* return), then the timer effect of App, whose appState changed.
unmountCleanups ==
    <<"camera">> \o (IF loop = "starting" THEN <<>> ELSE <<"inference">>) \o <<"sampler">>

\* The camera cleanup: the tracks are stopped only if videoRef.current is
\* still set when the cleanup runs. Whether React has already detached the
\* ref of the removed <video> depends on the React version of the build.
cameraAfterCleanup ==
    IF camera = "live" THEN {"live", "stopped"} ELSE {camera}

\* WebcamTracker across a render that shows screen app
renderTracker(app) ==
    IF sessionScreen(app) = sessionScreen(appState) THEN UNCHANGED lifeVars
    ELSE IF sessionScreen(app)
        \* mount: the camera is requested and the models are loaded; the tracking
        \* effect returns early until both are ready
        THEN loop' = "starting" /\ teardown' = <<>> /\ camera' = "off"
        \* unmount: cancelAnimationFrame(animationFrameId)
        ELSE /\ loop' = "unmounted"
             /\ teardown' = unmountCleanups
             /\ \E c \in cameraAfterCleanup : camera' = c

\* setAppState(app) from a click: React renders before the click returns
navigate(app) ==
    /\ commit(app, trackingState, browserState, isExtensionConnected, queuedSession,
              queuedElapsed, lastTickRef)
    /\ renderTracker(app)
    /\ UNCHANGED <<user, subject, now, saved>>

\* the render React schedules after updates queued by a timer, a frame or a message
Render ==
    /\ pendSlices # <<>> \/ pendElapsed # 0
    /\ navigate(appState)
    /\ UNCHANGED <<trackerVars, cmVars>>

onLogin ==
    /\ appState = "AUTH"
    /\ user' = [id |-> "u1"]
    /\ commit("HOME", trackingState, browserState, isExtensionConnected, queuedSession,
              queuedElapsed, lastTickRef)
    /\ UNCHANGED <<subject, now, saved, lifeVars>>
    /\ UNCHANGED <<trackerVars, cmVars>>

handleLogout ==
    /\ appState \in {"HOME", "ANALYTICS", "SETUP", "RUNNING", "PAUSED", "SUMMARY"}
    /\ user' = NULL
    /\ commit("AUTH", trackingState, browserState, isExtensionConnected, queuedSession,
              queuedElapsed, lastTickRef)
    /\ renderTracker("AUTH")
    /\ UNCHANGED <<subject, now, saved>>
    /\ UNCHANGED <<trackerVars, cmVars>>

\* Homepage.onNavigate and the "Start Session" button of the home screen
onNavigate ==
    /\ appState = "HOME"
    /\ \E route \in {"SETUP", "ANALYTICS", "PROJECT_VIEW"} : navigate(route)
    /\ UNCHANGED <<trackerVars, cmVars>>

\* the brand link of every navbar, AnalyticsDashboard.onBack, ProjectPage's
\* route HOME, Dashboard.onRestart
goHome ==
    /\ appState \in {"HOME", "ANALYTICS", "PROJECT_VIEW", "SETUP", "RUNNING", "PAUSED", "SUMMARY"}
    /\ navigate("HOME")
    /\ UNCHANGED <<trackerVars, cmVars>>

setSubject ==
    /\ appState = "SETUP"
    /\ \E text \in {"", "Mathematics"} : text # subject /\ subject' = text
    /\ commit(appState, trackingState, browserState, isExtensionConnected, queuedSession,
              queuedElapsed, lastTickRef)
    /\ UNCHANGED <<user, now, saved, lifeVars>>
    /\ UNCHANGED <<trackerVars, cmVars>>

handleStart ==
    /\ appState = "SETUP"
    /\ subject # ""
    /\ commit("RUNNING", trackingState, browserState, isExtensionConnected,
              [subject |-> subject, startTime |-> Time(now), endTime |-> NoTime,
               slices |-> <<>>],
              0, now)
    /\ renderTracker("RUNNING")
    \* nothing has been handed to db.saveSession for the session that starts
    /\ saved' = NULL
    /\ UNCHANGED <<user, subject, now>>
    /\ UNCHANGED <<trackerVars, cmVars>>

handleStop ==
    /\ appState \in {"RUNNING", "PAUSED"}
    \* finalSession is built from the sessionData of the last render; it is
    \* both the new state and (for a logged-in user) the argument of db.saveSession
    /\ LET finalSession == [sessionData EXCEPT !.endTime = Time(now)]
       IN  /\ commit("SUMMARY", trackingState, browserState, isExtensionConnected,
                     finalSession, queuedElapsed, lastTickRef)
           \* if (user) db.saveSession(finalSession, user.id)
           /\ saved' = IF user # NULL THEN finalSession ELSE saved
    /\ renderTracker("SUMMARY")
    /\ UNCHANGED <<user, subject, now>>
    /\ UNCHANGED <<trackerVars, cmVars>>

handlePause ==
    /\ appState = "RUNNING"
    /\ navigate("PAUSED")
    /\ UNCHANGED <<trackerVars, cmVars>>

handleResume ==
    /\ appState = "PAUSED"
    /\ navigate("RUNNING")
    /\ UNCHANGED <<trackerVars, cmVars>>

\* "Open Study Site" / "Open Distraction", shown while no extension is connected
simulateBrowser ==
    /\ appState \in {"RUNNING", "PAUSED"}
    /\ ~isExtensionConnected
    /\ \E b \in {SIM_STUDY_STATE, SIM_DISTRACTION_STATE} :
          commit(appState, trackingState, b, isExtensionConnected, queuedSession,
                 queuedElapsed, lastTickRef)
    /\ UNCHANGED <<user, subject, now, saved, lifeVars>>
    /\ UNCHANGED <<trackerVars, cmVars>>

\* faulty variant: every site an update reports is taken for a study site
updateOfStudy(url, title) ==
    LET host == hostname(url)
    IN  IF host = NULL THEN NULL
        ELSE [url |-> url, domain |-> host.hostname,
              title |-> IF title = "" THEN host.hostname ELSE title,
              category |-> "STUDY"]

\* the BrowserState an update with this url and title sets: the body of the
\* try block; NULL when new URL(url) throws (the catch leaves the state alone)
updateOf(url, title) ==
    LET host == hostname(url)
    IN  IF host = NULL THEN NULL
        ELSE [url |-> url, domain |-> host.hostname,
              title |-> IF title = "" THEN host.hostname ELSE title,
              category |-> classifyDomain(host.hostname)]

\* updateOf for every message of the environment, evaluated once
MessageUpdates == [event \in Messages |-> updateOf(event.url, event.title)]

\* faulty variant: the listener does not look at event.data.type
handleExtensionMessageAnyType(event) ==
    IF ~event.fromWindow THEN UNCHANGED <<appVars, lifeVars>>
    ELSE /\ commit(appState, trackingState,
                   IF MessageUpdates[event] = NULL THEN browserState
                   ELSE MessageUpdates[event],
                   TRUE, queuedSession, queuedElapsed, lastTickRef)
         /\ UNCHANGED <<user, subject, now, saved, lifeVars>>

\* the window's message listener, with the render its state updates cause
handleExtensionMessage(event) ==
    IF ~event.fromWindow THEN UNCHANGED <<appVars, lifeVars>>
    ELSE IF event.type # "INTELLI_STUDY_UPDATE" THEN UNCHANGED <<appVars, lifeVars>>
    ELSE /\ commit(appState, trackingState,
                   IF MessageUpdates[event] = NULL THEN browserState
                   ELSE MessageUpdates[event],
                   TRUE, queuedSession, queuedElapsed, lastTickRef)
         /\ UNCHANGED <<user, subject, now, saved, lifeVars>>

ExtensionMessage ==
    /\ \E event \in Messages : handleExtensionMessage(event)
    /\ UNCHANGED <<trackerVars, cmVars>>

\* <WebcamTracker onUpdate={setTrackingState} />, mounted on the session
\* screen: the tracker's TrackingState, with the render the update causes.
\* An update shows that the camera delivers frames and the loop is running.
setTrackingState(ts) ==
    /\ appState \in {"RUNNING", "PAUSED"}
    /\ commit(appState, ts, browserState, isExtensionConnected, queuedSession,
              queuedElapsed, lastTickRef)
    /\ loop' = "scheduled" /\ camera' = "live"
    /\ UNCHANGED <<user, subject, now, saved, teardown>>

TrackerUpdate ==
    /\ \E ts \in TrackerOutputs : setTrackingState(ts)
    /\ UNCHANGED <<trackerVars, cmVars>>

\* faulty variant: the timestamps count back from now as i grows
RECURSIVE newSlicesBackwards(_, _, _, _)
newSlicesBackwards(i, secondsPassed, verdict, browser) ==
    IF i >= secondsPassed THEN <<>>
    ELSE <<[timestamp |-> now - (i * 1000),
            status |-> verdict.status,
            distractionType |-> verdict.type,
            metadata |-> [url |-> browser.url, domain |-> browser.domain]]>>
         \o newSlicesBackwards(i + 1, secondsPassed, verdict, browser)

\* the slices of one wakeup: one classification, secondsPassed copies of it
RECURSIVE newSlices(_, _, _, _)
newSlices(i, secondsPassed, verdict, browser) ==
    IF i >= secondsPassed THEN <<>>
    ELSE <<[timestamp |-> now - ((secondsPassed - 1 - i) * 1000),
            status |-> verdict.status,
            distractionType |-> verdict.type,
            metadata |-> [url |-> browser.url, domain |-> browser.domain]]>>
         \o newSlices(i + 1, secondsPassed, verdict, browser)

\* the setInterval callback of the timer effect
SamplerWakeup ==
    /\ interval > 0
    /\ LET delta == now - lastTickRef
           secondsPassed == MathRound(delta, 1000)
           currentVision == trackingStateRef
           currentBrowser == browserStateRef
       IN  IF delta >= 1000
               THEN /\ pendElapsed' = pendElapsed + secondsPassed
                    /\ pendSlices' = pendSlices \o
                          newSlices(0, secondsPassed,
                                    classifyMoment(currentVision, currentBrowser),
                                    currentBrowser)
                    /\ lastTickRef' = now
               ELSE UNCHANGED <<pendElapsed, pendSlices, lastTickRef>>
    /\ UNCHANGED <<appState, user, subject, trackingState, browserState,
                   isExtensionConnected, sessionData, elapsedSeconds, trackingStateRef,
                   browserStateRef, interval, now, saved>>
    /\ UNCHANGED <<trackerVars, lifeVars, cmVars>>

\* Environment: time passes
Tick ==
    /\ now < StartOfClock + MaxClockSteps * ClockStep
    /\ now' = now + ClockStep
    /\ UNCHANGED <<appState, user, subject, trackingState, browserState,
                   isExtensionConnected, sessionData, elapsedSeconds, trackingStateRef,
                   browserStateRef, lastTickRef, interval, pendSlices, pendElapsed, saved>>
    /\ UNCHANGED <<trackerVars, lifeVars, cmVars>>

-----------------------------------------------------------------------------
(* utils/metrics.ts: calculateSessionMetrics *)

\* slice.metadata?.domain is present and truthy
hasDomain(slice) ==
    /\ slice.metadata # NULL
    /\ "domain" \in DOMAIN slice.metadata
    /\ slice.metadata.domain # ""

\* siteMap is a Map: entries in insertion order, one per key
siteIndex(siteMap, domain) ==
    IF \E i \in 1..Len(siteMap) : siteMap[i].domain = domain
        THEN CHOOSE i \in 1..Len(siteMap) : siteMap[i].domain = domain
        ELSE 0

\* faulty variant: the category of an existing entry is kept
siteMapSetKeepFirst(siteMap, slice) ==
    LET domain  == slice.metadata.domain
        i       == siteIndex(siteMap, domain)
        cat     == IF slice.distractionType = "WEB_DISTRACTION" THEN "NON_STUDY" ELSE "STUDY"
    IN  IF i = 0 THEN Append(siteMap, [domain |-> domain, duration |-> 1, category |-> cat])
        ELSE [siteMap EXCEPT ![i].duration = @ + 1]

\* siteMap.get(domain) || {duration: 0, category: 'NEUTRAL'}, then siteMap.set
siteMapSet(siteMap, slice) ==
    LET domain  == slice.metadata.domain
        i       == siteIndex(siteMap, domain)
        current == IF i = 0 THEN [duration |-> 0, category |-> "NEUTRAL"]
                   ELSE [duration |-> siteMap[i].duration, category |-> siteMap[i].category]
        cat     == IF slice.distractionType = "WEB_DISTRACTION" THEN "NON_STUDY" ELSE "STUDY"
        entry   == [domain |-> domain, duration |-> current.duration + 1, category |-> cat]
    IN  IF i = 0 THEN Append(siteMap, entry) ELSE [siteMap EXCEPT ![i] = entry]

\* the accumulators after slices.forEach
forEachInit ==
    [focusedTime |-> 0, partialTime |-> 0, outsideTime |-> 0,
     phoneTime |-> 0, webTime |-> 0, absentTime |-> 0, siteMap |-> <<>>]

\* faulty variant: the distraction counters are nested in the else branch of
\* the status counters
forEachStepNested(acc, slice) ==
    LET outside == slice.status \notin {"FOCUSED", "PARTIAL"}
    IN  [focusedTime |-> acc.focusedTime + (IF slice.status = "FOCUSED" THEN 1 ELSE 0),
         partialTime |-> acc.partialTime + (IF slice.status = "PARTIAL" THEN 1 ELSE 0),
         outsideTime |-> acc.outsideTime + (IF outside THEN 1 ELSE 0),
         phoneTime |-> acc.phoneTime
                       + (IF outside /\ slice.distractionType = "PHONE" THEN 1 ELSE 0),
         webTime |-> acc.webTime
                     + (IF outside /\ slice.distractionType = "WEB_DISTRACTION" THEN 1 ELSE 0),
         absentTime |-> acc.absentTime
                        + (IF outside /\ slice.distractionType \in {"ABSENT", "LOOKING_AWAY"}
                           THEN 1 ELSE 0),
         siteMap |-> IF hasDomain(slice) THEN siteMapSet(acc.siteMap, slice) ELSE acc.siteMap]

forEachStep(acc, slice) ==
    [focusedTime |-> acc.focusedTime + (IF slice.status = "FOCUSED" THEN 1 ELSE 0),
     partialTime |-> acc.partialTime + (IF slice.status = "PARTIAL" THEN 1 ELSE 0),
     outsideTime |-> acc.outsideTime + (IF slice.status \notin {"FOCUSED", "PARTIAL"} THEN 1 ELSE 0),
     phoneTime |-> acc.phoneTime + (IF slice.distractionType = "PHONE" THEN 1 ELSE 0),
     webTime |-> acc.webTime + (IF slice.distractionType = "WEB_DISTRACTION" THEN 1 ELSE 0),
     absentTime |-> acc.absentTime
                    + (IF slice.distractionType \in {"ABSENT", "LOOKING_AWAY"} THEN 1 ELSE 0),
     siteMap |-> IF hasDomain(slice) THEN siteMapSet(acc.siteMap, slice) ELSE acc.siteMap]

RECURSIVE forEach(_, _)
forEach(acc, slices) ==
    IF slices = <<>> THEN acc ELSE forEach(forEachStep(acc, Head(slices)), Tail(slices))

\* Array.prototype.sort((a, b) => b.duration - a.duration): stable, descending
RECURSIVE sortInsert(_, _)
sortInsert(sorted, site) ==
    IF sorted = <<>> THEN <<site>>
    ELSE IF Head(sorted).duration >= site.duration
        THEN <<Head(sorted)>> \o sortInsert(Tail(sorted), site)
        ELSE <<site>> \o sorted

\* faulty variant: the entries stay in insertion order
sortByDurationUnsorted(sites) == sites

RECURSIVE sortByDuration(_)
sortByDuration(sites) ==
    IF sites = <<>> THEN <<>>
    ELSE sortInsert(sortByDuration(SubSeq(sites, 1, Len(sites) - 1)), sites[Len(sites)])

\* JavaScript numbers are IEEE 754 doubles: 53 significant bits, rounded to
\* nearest, ties to even. A positive double is kept as [hi, mid, lo, exp] with
\* the value (hi * 2^34 + mid * 2^16 + lo) * 2^(exp - 52), the three limbs
\* holding at most 53 significant bits between them.
RECURSIVE Pow2(_)
Pow2(k) == IF k = 0 THEN 1 ELSE 2 * Pow2(k - 1)

\* carries the overflow of lo (16 bits) and mid (18 bits) upwards
limbs(hi, mid, lo) ==
    LET m == mid + (lo \div Pow2(16))
    IN  [hi |-> hi + (m \div Pow2(18)), mid |-> m % Pow2(18), lo |-> lo % Pow2(16)]

\* how often num is doubled until it reaches den
RECURSIVE leadShift(_, _)
leadShift(num, den) == IF num >= den THEN 0 ELSE 1 + leadShift(2 * num, den)

\* the double num / den for integers 0 < num <= den < 2^13: long division,
\* 1 + 18 + 18 + 16 quotient bits, then rounding by the remainder
fdiv(num, den) ==
    LET e  == leadShift(num, den)
        r0 == num * Pow2(e) - den
        qa == (r0 * Pow2(18)) \div den
        ra == (r0 * Pow2(18)) % den
        qb == (ra * Pow2(18)) \div den
        rb == (ra * Pow2(18)) % den
        qc == (rb * Pow2(16)) \div den
        rc == (rb * Pow2(16)) % den
        up == 2 * rc > den \/ (2 * rc = den /\ qc % 2 = 1)
        m  == limbs(Pow2(18) + qa, qb, qc + (IF up THEN 1 ELSE 0))
    IN  [hi |-> m.hi, mid |-> m.mid, lo |-> m.lo, exp |-> 0 - e]

\* how many low bits a product loses to fit 53 bits again
RECURSIVE dropBits(_)
dropBits(hi) == IF hi < Pow2(19) THEN 0 ELSE 1 + dropBits(hi \div 2)

\* the double x * c for an integer 2 <= c < 2^12: the exact product, its low
\* bits rounded away
fmul(x, c) ==
    LET p       == limbs(x.hi * c, x.mid * c, x.lo * c)
        s       == dropBits(p.hi)
        dropped == p.lo % Pow2(s)
        kept    == p.lo - dropped
        up      == \/ 2 * dropped > Pow2(s)
                   \/ (2 * dropped = Pow2(s) /\ (kept \div Pow2(s)) % 2 = 1)
        r       == limbs(p.hi, p.mid, kept + (IF up THEN Pow2(s) ELSE 0))
    IN  [hi |-> r.hi, mid |-> r.mid, lo |-> r.lo, exp |-> x.exp]

\* Math.round of a positive double with exp <= 17: the integer part, plus one
\* when the fraction is at least a half (both lie in the hi limb)
mathRound(x) ==
    (x.hi \div Pow2(18 - x.exp)) + ((x.hi \div Pow2(17 - x.exp)) % 2)

\* Math.min(100, Math.max(0, Math.round(weightedScore * 100))) with
\* weightedScore = (focusedTime * 1.0 + partialTime * 0.5) / totalDuration:
\* the sum is exact, the division and the multiplication each round
focusScoreOf(focusedTime, partialTime, totalDuration) ==
    IF 2 * focusedTime + partialTime = 0 THEN 0
    ELSE Min(100, Max(0, mathRound(fmul(fdiv(2 * focusedTime + partialTime,
                                             2 * totalDuration), 100))))

\* a quotient of two counts is kept as the fraction num / den
Ratio(num, den) == [num |-> num, den |-> den]

\* faulty variant: partialTime is not folded into the reported outsideTime
metricsReturnRawOutside(totalDuration, acc) ==
    [totalDuration |-> totalDuration,
     focusedTime |-> acc.focusedTime,
     outsideTime |-> acc.outsideTime,
     phoneTime |-> acc.phoneTime,
     webTime |-> acc.webTime,
     absentTime |-> acc.absentTime,
     focusScore |-> focusScoreOf(acc.focusedTime, acc.partialTime, totalDuration),
     distractionRatio |-> Ratio(acc.outsideTime, totalDuration),
     topSites |-> sortByDuration(acc.siteMap)]

\* faulty variant: the ratio is taken of the reported outsideTime
metricsReturnReportedRatio(totalDuration, acc) ==
    [totalDuration |-> totalDuration,
     focusedTime |-> acc.focusedTime,
     outsideTime |-> acc.outsideTime + acc.partialTime,
     phoneTime |-> acc.phoneTime,
     webTime |-> acc.webTime,
     absentTime |-> acc.absentTime,
     focusScore |-> focusScoreOf(acc.focusedTime, acc.partialTime, totalDuration),
     distractionRatio |-> Ratio(acc.outsideTime + acc.partialTime, totalDuration),
     topSites |-> sortByDuration(acc.siteMap)]

\* the object returned, from the accumulators
metricsReturn(totalDuration, acc) ==
    [totalDuration |-> totalDuration,
     focusedTime |-> acc.focusedTime,
     outsideTime |-> acc.outsideTime + acc.partialTime,
     phoneTime |-> acc.phoneTime,
     webTime |-> acc.webTime,
     absentTime |-> acc.absentTime,
     focusScore |-> focusScoreOf(acc.focusedTime, acc.partialTime, totalDuration),
     distractionRatio |-> Ratio(acc.outsideTime, totalDuration),
     topSites |-> sortByDuration(acc.siteMap)]

\* faulty variant: no early return for an empty sequence; 0 / 0 is NaN in JavaScript,
\* kept here as the fraction 0 / 0
calculateSessionMetricsNoGuard(slices) ==
    LET acc == forEach(forEachInit, slices)
    IN  [totalDuration |-> Len(slices),
         focusedTime |-> acc.focusedTime,
         outsideTime |-> acc.outsideTime + acc.partialTime,
         phoneTime |-> acc.phoneTime,
         webTime |-> acc.webTime,
         absentTime |-> acc.absentTime,
         focusScore |-> IF Len(slices) = 0 THEN Ratio(0, 0)
                        ELSE focusScoreOf(acc.focusedTime, acc.partialTime, Len(slices)),
         distractionRatio |-> Ratio(acc.outsideTime, Len(slices)),
         topSites |-> sortByDuration(acc.siteMap)]

calculateSessionMetrics(slices) ==
    IF Len(slices) = 0
        THEN [totalDuration |-> 0, focusedTime |-> 0, outsideTime |-> 0, phoneTime |-> 0,
              webTime |-> 0, absentTime |-> 0, focusScore |-> 0,
              distractionRatio |-> Ratio(0, 1), topSites |-> <<>>]
        ELSE metricsReturn(Len(slices), forEach(forEachInit, slices))

\* Bounds of the inputs
MaxShortLen == 2        \* sequences over every slice value, up to this length
MaxRuns == 2            \* sequences of up to this many runs of equal slices
MaxRunLen == 5          \* ... each of up to this length
MaxLongLen == 22        \* sessions of up to this many seconds, by status counts

MetadataInputs ==
    { NULL, [url |-> "https://youtube.com", domain |-> "youtube.com"],
      [url |-> "https://canvas.edu", domain |-> "canvas.edu"] }

\* every TimeSlice value (the timestamp is not read by the reduction)
SliceInputs ==
    [timestamp : {StartOfClock}, status : FocusStatus, distractionType : DistractionType,
     metadata : MetadataInputs]

\* the slices a run is made of
mkSlice(st, ty, md) ==
    [timestamp |-> StartOfClock, status |-> st, distractionType |-> ty, metadata |-> md]

RunSlices ==
    { mkSlice("FOCUSED", "NONE", NULL),
      mkSlice("FOCUSED", "NONE", [url |-> "https://canvas.edu", domain |-> "canvas.edu"]),
      mkSlice("PARTIAL", "LOOKING_AWAY", [url |-> "https://canvas.edu", domain |-> "canvas.edu"]),
      mkSlice("PARTIAL", "NONE", NULL),
      mkSlice("DISTRACTED", "WEB_DISTRACTION", [url |-> "https://youtube.com", domain |-> "youtube.com"]),
      mkSlice("DISTRACTED", "ABSENT", NULL) }

ShortInputs == UNION { [1..n -> SliceInputs] : n \in 0..MaxShortLen }

Run(slice, n) == [i \in 1..n |-> slice]

RECURSIVE RunInputs(_)
RunInputs(k) ==
    IF k = 0 THEN { <<>> }
    ELSE RunInputs(k - 1)
         \cup { r \o Run(slice, n) : r \in RunInputs(k - 1), slice \in RunSlices, n \in 1..MaxRunLen }

\* f FOCUSED, p PARTIAL and d DISTRACTED seconds
LongInputs ==
    { Run(mkSlice("FOCUSED", "NONE", NULL), f)
        \o Run(mkSlice("PARTIAL", "NONE", NULL), p)
        \o Run(mkSlice("DISTRACTED", "ABSENT", NULL), d) :
      f \in 0..MaxLongLen, p \in 0..MaxLongLen, d \in 0..MaxLongLen }

MetricsInit ==
    /\ mSlices \in ShortInputs \cup RunInputs(MaxRuns)
                   \cup { l \in LongInputs : Len(l) <= MaxLongLen }
    /\ mResult = NULL
    /\ cmVision = NULL /\ cmBrowser = DEFAULT_BROWSER_STATE /\ cmResult = NULL
    /\ cdDomain = "" /\ cdResult = ""

Calculate ==
    /\ mResult = NULL
    /\ mResult' = calculateSessionMetrics(mSlices)
    /\ UNCHANGED <<cmVision, cmBrowser, cmResult, mSlices, cdDomain, cdResult>>
    /\ UNCHANGED <<trackerVars, lifeVars, appVars>>

-----------------------------------------------------------------------------
(* Specifications *)

InitClassify == ClassifyInit /\ TrackerIdle /\ LoopIdle /\ AppInit
NextClassify == Classify
SpecClassify == InitClassify /\ [][NextClassify]_vars

InitDomain == DomainInit /\ TrackerIdle /\ LoopIdle /\ AppInit
NextDomain == ClassifyDomain
SpecDomain == InitDomain /\ [][NextDomain]_vars

InitTracker == TrackerInit /\ LoopRunning /\ ClassifyIdle /\ AppInit
NextTracker == Predict \/ PredictThrows \/ MoveHead
SpecTracker == InitTracker /\ [][NextTracker]_vars

InitPhone == TrackerIdle /\ LoopRunning /\ ClassifyIdle /\ AppInit
NextPhone == PredictCounted
SpecPhone == InitPhone /\ [][NextPhone]_vars

InitMetrics == MetricsInit /\ TrackerIdle /\ LoopIdle /\ AppInit
NextMetrics == Calculate
SpecMetrics == InitMetrics /\ [][NextMetrics]_vars

Init == AppInit /\ TrackerIdle /\ LoopIdle /\ ClassifyIdle
Next ==
    \/ onLogin \/ handleLogout \/ onNavigate \/ goHome \/ setSubject
    \/ handleStart \/ handleStop \/ handlePause \/ handleResume
    \/ simulateBrowser \/ ExtensionMessage \/ TrackerUpdate
    \/ SamplerWakeup \/ Render \/ Tick
Spec == Init /\ [][Next]_vars

-----------------------------------------------------------------------------
(* Claims *)

IsPrefix(a, b) == Len(a) <= Len(b) /\ SubSeq(b, 1, Len(a)) = a

\* how many slices satisfy a test, counted without the reduction
countStatus(slices, st) == Cardinality({ i \in 1..Len(slices) : slices[i].status = st })

\* the rules of the classifier in the order stated, each <<matches, status, type>>
C1_Rules(v, b) ==
    << <<v # NULL /\ v.isPhoneDetected,     "DISTRACTED", "PHONE">>,
       <<b.category = "NON_STUDY",          "DISTRACTED", "WEB_DISTRACTION">>,
       <<v = NULL \/ ~v.isFacePresent,      "DISTRACTED", "ABSENT">>,
       <<v # NULL /\ v.isHeadDown,          "DISTRACTED", "PHONE">>,
       <<v # NULL /\ ~v.isLookingAtScreen,  "PARTIAL",    "LOOKING_AWAY">>,
       <<b.category = "STUDY",              "FOCUSED",    "NONE">>,
       <<TRUE,                              "PARTIAL",    "NONE">> >>

\* C1: for every tracking (null or any four booleans) and browser category,
\* classifyMoment returns the result of the first rule that matches, in the
\* order phone, NON_STUDY, null or no face, head down, looking away, STUDY,
\* otherwise.
C1_FirstMatchingRule ==
    cmResult # NULL =>
        LET rules == C1_Rules(cmVision, cmBrowser)
            first == CHOOSE k \in 1..Len(rules) :
                        rules[k][1] /\ \A j \in 1..(k - 1) : ~rules[j][1]
        IN  cmResult = [status |-> rules[first][2], type |-> rules[first][3]]

\* a phone is detected on a distracting site: the phone rule wins
C1_Witness ==
    /\ cmResult # NULL
    /\ cmVision # NULL
    /\ cmVision.isPhoneDetected
    /\ cmBrowser.category = "NON_STUDY"
    /\ cmResult = [status |-> "DISTRACTED", type |-> "PHONE"]

\* the (status, distractionType) pairs the rules of the classifier produce
ClassifierPairs ==
    { <<"DISTRACTED", "PHONE">>, <<"DISTRACTED", "WEB_DISTRACTION">>,
      <<"DISTRACTED", "ABSENT">>, <<"PARTIAL", "LOOKING_AWAY">>,
      <<"FOCUSED", "NONE">>, <<"PARTIAL", "NONE">> }

\* C3: every recorded slice of a session (rendered or still queued) has a
\* status among FOCUSED, PARTIAL, DISTRACTED and a (status, distractionType)
\* pair a classifier rule produces; TAB_SWITCH never occurs and FOCUSED only
\* comes with NONE.
C3_SlicesConsistent ==
    \A slice \in { sessionData.slices[i] : i \in 1..Len(sessionData.slices) }
                 \cup { pendSlices[i] : i \in 1..Len(pendSlices) } :
        /\ slice.status \in FocusStatus
        /\ <<slice.status, slice.distractionType>> \in ClassifierPairs
        /\ slice.distractionType # "TAB_SWITCH"
        /\ slice.status = "FOCUSED" => slice.distractionType = "NONE"

\* a session that recorded a focused second and then a distracting site
C3_Witness ==
    /\ Len(sessionData.slices) >= 2
    /\ sessionData.slices[1].status = "FOCUSED"
    /\ sessionData.slices[Len(sessionData.slices)].distractionType = "WEB_DISTRACTION"

\* C4: the phone confidence counter stays within 0..10 after any sequence of
\* inference ticks and detection results.
C4_PhoneCountBounded == phoneDetectionCount \in 0..PHONE_COUNT_MAX

\* the counter has reached the upper clamp on a detection
C4_Witness == phoneDetectionCount = PHONE_COUNT_MAX /\ phoneDetectedInFrame

\* a step is a sampled inference tick whose detection result disagrees with
\* the isPhoneDetected value emitted before it
disagreeingSample ==
    /\ newState # NULL
    /\ frameCounter' # frameCounter
    /\ sampledFrame(frameCounter)
    /\ phoneDetectedInFrame' # newState.isPhoneDetected

\* C5 as stated: from any reachable counter value, one sampled frame whose
\* detection result disagrees with the current isPhoneDetected does not
\* change isPhoneDetected.
C5_SingleFrameNeverFlips ==
    [][disagreeingSample => newState'.isPhoneDetected = newState.isPhoneDetected]_vars

\* C5 amended: one disagreeing sampled frame changes isPhoneDetected exactly
\* when the counter stands next to the threshold: at 2 (signal off) a single
\* detection raises it, at 3 (signal on) a single miss clears it; from every
\* other counter value the signal is unchanged.
C5_SingleFrameFlipsOnlyAtThreshold ==
    [][disagreeingSample =>
         ((newState'.isPhoneDetected # newState.isPhoneDetected)
            <=> phoneDetectionCount \in {PHONE_DETECTION_CONFIDENCE - 1,
                                         PHONE_DETECTION_CONFIDENCE})]_vars

\* one detection on a sampled frame from rest: the counter moved, the signal
\* did not
C5_Witness ==
    /\ newState # NULL
    /\ phoneDetectedInFrame
    /\ phoneDetectionCount = 1
    /\ ~newState.isPhoneDetected

\* C6: pitchBuffer and yawBuffer never hold more than 15 entries, and right
\* after a tick without a face both are empty and the emitted TrackingState
\* has isFacePresent, isHeadDown and isLookingAtScreen all false.
C6_BuffersBoundedAndCleared ==
    /\ Len(pitchBuffer) <= POSE_BUFFER_SIZE
    /\ Len(yawBuffer) <= POSE_BUFFER_SIZE
    /\ (newState # NULL /\ ~faceFound) =>
          /\ pitchBuffer = <<>>
          /\ yawBuffer = <<>>
          /\ ~newState.isFacePresent
          /\ ~newState.isHeadDown
          /\ ~newState.isLookingAtScreen

\* the face was lost while the buffers held samples
C6_Witness == cleared /\ ~faceFound /\ pitchBuffer = <<>> /\ yawBuffer = <<>>

\* C7: focusedTime + partialTime + (reported outsideTime - partialTime)
\* = totalDuration = number of slices, where focusedTime counts the FOCUSED
\* slices, partialTime the PARTIAL ones, and the reported outsideTime is the
\* count of all other slices plus partialTime.
C7_TimesAddUp ==
    mResult # NULL =>
        LET focused == countStatus(mSlices, "FOCUSED")
            partial == countStatus(mSlices, "PARTIAL")
            others  == Len(mSlices) - focused - partial
        IN  /\ mResult.focusedTime = focused
            /\ mResult.outsideTime = others + partial
            /\ mResult.focusedTime + partial + (mResult.outsideTime - partial)
                  = mResult.totalDuration
            /\ mResult.totalDuration = Len(mSlices)

\* a reduced sequence with partial and with distracted seconds
C7_Witness ==
    /\ mResult # NULL
    /\ countStatus(mSlices, "PARTIAL") > 0
    /\ countStatus(mSlices, "DISTRACTED") > 0

\* round(clamp(num / den, 0, 100)), halves up, stated by its defining
\* inequalities: r - 1/2 <= clamp(num / den) < r + 1/2
roundedClamped(num, den) ==
    LET clamped == Max(0, Min(num, 100 * den))
    IN  CHOOSE r \in 0..100 : 2 * r * den - den <= 2 * clamped /\ 2 * clamped < 2 * r * den + den

\* C8: for a non-empty sequence focusScore is
\* round(clamp(((focusedTime + partialTime / 2) / totalDuration) * 100, 0, 100))
\* with halves rounded up, an integer in 0..100; ten FOCUSED slices give 100,
\* five FOCUSED and five DISTRACTED give 50.
C8_FocusScore ==
    (mResult # NULL /\ mSlices # <<>>) =>
        LET focused == countStatus(mSlices, "FOCUSED")
            partial == countStatus(mSlices, "PARTIAL")
            total   == Len(mSlices)
        IN  /\ mResult.focusScore \in 0..100
            /\ mResult.focusScore = roundedClamped((2 * focused + partial) * 100, 2 * total)
            /\ (total = 10 /\ focused = 10) => mResult.focusScore = 100
            /\ (total = 10 /\ focused = 5 /\ countStatus(mSlices, "DISTRACTED") = 5)
                  => mResult.focusScore = 50

\* C9: for the empty sequence the result has totalDuration, focusedTime,
\* outsideTime, phoneTime, webTime, absentTime, focusScore and
\* distractionRatio all 0 and topSites empty, and nothing is divided by zero.
C9_EmptyIsAllZero ==
    (mResult # NULL /\ mSlices = <<>>) =>
        /\ mResult.distractionRatio.den # 0
        /\ mResult.distractionRatio.num = 0
        /\ mResult.focusScore = 0
        /\ mResult.totalDuration = 0
        /\ mResult.focusedTime = 0
        /\ mResult.outsideTime = 0
        /\ mResult.phoneTime = 0
        /\ mResult.webTime = 0
        /\ mResult.absentTime = 0
        /\ mResult.topSites = <<>>

\* the empty sequence has been reduced
C9_Witness == mResult # NULL /\ mSlices = <<>> /\ mResult.totalDuration = 0

\* the step is handleStart: a new session begins
startsSession == appState = "SETUP" /\ appState' = "RUNNING"

\* C10: within a session the slice sequence only grows by appending (each
\* state's sequence is a prefix of the next state's); a new session starts
\* with no slices and endTime null; once stopped, neither the slices nor
\* endTime change until a new session is started.
C10_SlicesAppendOnly ==
    [][/\ ~startsSession => IsPrefix(sessionData.slices, sessionData'.slices)
       /\ startsSession => (sessionData'.slices = <<>> /\ sessionData'.endTime = NoTime)
       /\ (sessionData.endTime # NoTime /\ ~startsSession) =>
             /\ sessionData'.slices = sessionData.slices
             /\ sessionData'.endTime = sessionData.endTime]_vars

\* a stopped session whose slices come from two wakeups (one wakeup gives all
\* its slices the same verdict)
C10_Witness ==
    /\ appState = "SUMMARY"
    /\ sessionData.endTime # NoTime
    /\ Len(sessionData.slices) >= 2
    /\ sessionData.slices[1].status # sessionData.slices[2].status

\* the step of handleStop: the session screen is left for the summary
stopStep == appState \in {"RUNNING", "PAUSED"} /\ appState' = "SUMMARY"

\* the slices the sampler has appended to the session so far, in order:
\* those already rendered and those of updaters still queued
appended == sessionData.slices \o pendSlices

\* C11: at stop, the SessionData handed to db.saveSession has endTime set and
\* contains, in order, every slice the sampler appended during the session,
\* whatever the interleaving of sampler wakeups, renders and the stop.
C11_SavedSessionComplete ==
    [][stopStep => /\ saved' # NULL
                   /\ saved'.endTime # NoTime
                   /\ saved'.slices = appended]_vars

\* a sampler wakeup that emits: the queue of appended slices grows
emits == Len(pendSlices') > Len(pendSlices)

\* the slices the emitting wakeup appends
batch == SubSeq(pendSlices', Len(pendSlices) + 1, Len(pendSlices'))

nonDecreasing(slices) ==
    \A i \in 1..(Len(slices) - 1) : slices[i].timestamp <= slices[i + 1].timestamp

\* C12: within one session the slice timestamps are non-decreasing in sequence
\* order, across batches and across pause and resume, and consecutive slices
\* of one batch are exactly 1000 ms apart.
C12_TimestampsOrdered ==
    [][/\ nonDecreasing(appended')
       /\ emits => \A i \in 1..(Len(batch) - 1) :
                       batch[i + 1].timestamp - batch[i].timestamp = 1000]_vars

\* two batches of one session, the first rendered, the second still queued
C12_Witness ==
    /\ Len(sessionData.slices) >= 1 /\ Len(pendSlices) >= 1
    /\ appended[1].timestamp < appended[Len(appended)].timestamp

\* C13: while the session is paused or stopped lastTick is 0; the resume sets
\* it to the time of the resume, so that the first wakeup after a pause of
\* any length emits slices for the time since the resume only, every one of
\* them later than the resume.
C13_NoCatchUpAfterPause ==
    [][/\ appState' # "RUNNING" => lastTickRef' = 0
       /\ (appState = "PAUSED" /\ appState' = "RUNNING") => lastTickRef' = now
       /\ emits => /\ \A i \in 1..Len(batch) : batch[i].timestamp > lastTickRef
                    /\ 2000 * Len(batch) <= 2 * (now - lastTickRef) + 1000]_vars

\* two seconds after the start the session holds one slice only: the time
\* before the resume was not sampled
C13_Witness ==
    /\ appState = "RUNNING" /\ Len(appended) = 1
    /\ appended[1].timestamp - sessionData.startTime[1] >= 2000

\* the slice a wakeup at time t makes of the tracking and browser state it reads
sliceAt(t, v, b) ==
    [timestamp |-> t,
     status |-> classifyMoment(v, b).status,
     distractionType |-> classifyMoment(v, b).type,
     metadata |-> [url |-> b.url, domain |-> b.domain]]

\* C18: a wakeup emits only while RUNNING and with delta = now - lastTick of at
\* least 1000; it then appends exactly round(delta / 1000) slices, the i-th
\* (from 0) with timestamp now - (secondsPassed - 1 - i) * 1000, all with the
\* status, type and metadata of the tracking and browser state read at the
\* wakeup, and lastTick becomes now. lastTick changes during RUNNING in no
\* other way, so a wakeup with delta below 1000 leaves slices and lastTick alone.
C18_WakeupBatch ==
    [][/\ emits =>
            LET delta == now - lastTickRef
                n     == Len(batch)
            IN  /\ appState = "RUNNING" /\ interval > 0
                /\ delta >= 1000
                /\ 2 * delta - 1000 < 2000 * n /\ 2000 * n <= 2 * delta + 1000
                /\ \A i \in 0..(n - 1) :
                       batch[i + 1] = sliceAt(now - ((n - 1 - i) * 1000),
                                              trackingStateRef, browserStateRef)
                /\ IsPrefix(pendSlices, pendSlices')
                /\ lastTickRef' = now
       /\ (appState = "RUNNING" /\ appState' = "RUNNING" /\ lastTickRef' # lastTickRef)
             => (emits /\ now - lastTickRef >= 1000)]_vars

\* a batch of two slices, emitted 1500 ms after the previous tick, has been rendered
C18_Witness ==
    /\ Len(sessionData.slices) = 2
    /\ sessionData.slices[2].timestamp - sessionData.startTime[1] = 1500
    /\ sessionData.slices[1].status = sessionData.slices[2].status

\* the new slices of an emitting wakeup that ran with no TrackingState at all
blindBatch == emits /\ trackingStateRef = NULL

\* C15 as stated: if the core never receives a frame, every slice of the
\* session is (DISTRACTED, ABSENT).
C15_BlindIsAbsent ==
    [][blindBatch => \A i \in 1..Len(batch) :
          batch[i].status = "DISTRACTED" /\ batch[i].distractionType = "ABSENT"]_vars

\* C15: if the core never receives a frame, every slice of the session is
\* DISTRACTED: of type WEB_DISTRACTION while the browser is on a NON_STUDY
\* site, of type ABSENT otherwise.
C15_BlindIsDistracted ==
    [][blindBatch => \A i \in 1..Len(batch) :
          /\ batch[i].status = "DISTRACTED"
          /\ batch[i].distractionType =
                IF browserStateRef.category = "NON_STUDY" THEN "WEB_DISTRACTION"
                                                          ELSE "ABSENT"]_vars

\* a session without any frame holds a slice of each of the two types
C15_Witness ==
    /\ trackingState = NULL
    /\ \E i, j \in 1..Len(appended) :
          /\ appended[i].distractionType = "ABSENT"
          /\ appended[j].distractionType = "WEB_DISTRACTION"

\* the lists of C14, as stated
C14_StudyMarks == {"canvas", "wikipedia", "github", "stackoverflow", ".edu"}
C14_NonStudyMarks == {"youtube", "instagram", "twitter", "facebook", "tiktok", "reddit"}

C14_Class(domain) ==
    LET d == toLowerCase(domain)
    IN  IF \E mark \in C14_StudyMarks : includes(d, mark) THEN "STUDY"
        ELSE IF \E mark \in C14_NonStudyMarks : includes(d, mark) THEN "NON_STUDY"
        ELSE "NEUTRAL"

\* C14: classifyDomain returns STUDY iff the lower-cased domain contains
\* canvas, wikipedia, github, stackoverflow or .edu; otherwise NON_STUDY iff it
\* contains youtube, instagram, twitter, facebook, tiktok or reddit; otherwise
\* NEUTRAL; matching ignores case and STUDY is checked first.
C14_DomainClasses == cdResult # "" => cdResult = C14_Class(cdDomain)

\* C19: the phone counter changes on sampled ticks only (frame counter
\* divisible by 5): by +1, clamped at 10, when the sampled frame shows a phone
\* and by -1, clamped at 0, when it does not; it is unchanged on the four
\* ticks in between; every emitted TrackingState has isPhoneDetected exactly
\* when the counter is at least 3.
C19_CounterOnSampledTicks ==
    [][/\ frameCounter' # frameCounter =>
            IF frameCounter % 5 = 0
                THEN phoneDetectionCount' =
                        IF phoneDetectedInFrame'
                            THEN (IF phoneDetectionCount = 10 THEN 10
                                  ELSE phoneDetectionCount + 1)
                            ELSE (IF phoneDetectionCount = 0 THEN 0
                                  ELSE phoneDetectionCount - 1)
                ELSE phoneDetectionCount' = phoneDetectionCount
       /\ frameCounter' = frameCounter => phoneDetectionCount' = phoneDetectionCount
       /\ newState' # NULL => (newState'.isPhoneDetected <=> phoneDetectionCount' >= 3)]_vars

\* a tick between two samples has emitted a state while the counter is at
\* the ceiling
C19_Witness ==
    /\ newState # NULL /\ newState.isPhoneDetected
    /\ phoneDetectionCount = 10 /\ frameCounter = 3

\* a tick in which a detector throws
throwStep == outcome' \in {"faceThrew", "objectThrew"}

\* C17: a failure of one inference tick (a detector throwing) is swallowed:
\* the loop has the next tick scheduled, and the buffers and the phone counter
\* keep their contents.
C17_FailedTickSwallowed ==
    [][throwStep => /\ loop' = "scheduled"
                    /\ UNCHANGED <<pitchBuffer, yawBuffer, phoneDetectionCount>>]_vars

\* C20: from any reachable counter value, 3 consecutive sampled detections
\* make isPhoneDetected true and 8 consecutive sampled misses make it false.
\* (That no shorter run does so for every starting value is shown by the
\* reachable states C20_Witness and C20_TwoDetectionsNotEnough.)
C20_RunsDecide ==
    /\ phoneRun >= 3 => (newState # NULL /\ newState.isPhoneDetected)
    /\ phoneRun <= 0 - 8 => (newState # NULL /\ ~newState.isPhoneDetected)

\* seven consecutive sampled misses and the signal is still on
C20_Witness ==
    phoneRun = 0 - 7 /\ newState # NULL /\ newState.isPhoneDetected

\* two consecutive sampled detections and the signal is still off
C20_TwoDetectionsNotEnough ==
    phoneRun = 2 /\ newState # NULL /\ ~newState.isPhoneDetected

\* C16: stopping a session with the inference loop running halts the
\* inference loop, then the sampler timer, then releases the camera, in that
\* order and each of the three; after the stop no inference tick is scheduled
\* and no sampler wakeup can run.
C16_TeardownOrder ==
    [][(stopStep /\ loop = "scheduled") =>
          /\ teardown' = <<"inference", "sampler", "camera">>
          /\ camera' = "stopped"
          /\ loop' = "unmounted" /\ interval' = 0]_vars

\* the last 15 elements of a sequence, all of it when it is shorter
lastFifteen(samples) == SubSeq(samples, Max(1, Len(samples) - 14), Len(samples))

\* C21: on a tick with a detected face, isHeadDown is true iff the mean of
\* pitchBuffer is strictly greater than 25, and isLookingAtScreen is true iff
\* the absolute mean of yawBuffer is strictly less than 25 and isHeadDown is
\* false; no emitted TrackingState has both true; the buffers hold exactly
\* the last min(k, 15) samples pushed since the most recent face loss: a tick
\* with a face appends the current pose and keeps the last 15, a tick without
\* a face empties them.
C21_SmoothedPose ==
    [][frameCounter' # frameCounter =>
          /\ faceFound' =>
                /\ pitchBuffer' = lastFifteen(Append(pitchBuffer, pose.pitch))
                /\ yawBuffer' = lastFifteen(Append(yawBuffer, pose.yaw))
                /\ newState'.isHeadDown <=> Sum(pitchBuffer') > 25 * Len(pitchBuffer')
                /\ newState'.isLookingAtScreen <=>
                      (/\ Sum(yawBuffer') < 25 * Len(yawBuffer')
                       /\ Sum(yawBuffer') > 0 - 25 * Len(yawBuffer')
                       /\ ~newState'.isHeadDown)
          /\ ~faceFound' => (pitchBuffer' = <<>> /\ yawBuffer' = <<>>)
          /\ ~(newState'.isHeadDown /\ newState'.isLookingAtScreen)]_vars

\* a face tick whose mean pitch is exactly 25: the head does not count as down
C21_Witness ==
    /\ newState # NULL /\ newState.isFacePresent /\ ~newState.isHeadDown
    /\ Len(pitchBuffer) > 1 /\ Sum(pitchBuffer) = 25 * Len(pitchBuffer)

\* how many slices have a distraction type among types
countType(slices, types) ==
    Cardinality({ i \in 1..Len(slices) : slices[i].distractionType \in types })

\* C22: for every slice sequence, phoneTime is the number of slices with
\* distractionType PHONE, webTime the number with WEB_DISTRACTION, absentTime
\* the number with ABSENT or LOOKING_AWAY, whatever the status of the slices.
C22_TypeCounts ==
    mResult # NULL =>
        /\ mResult.phoneTime = countType(mSlices, {"PHONE"})
        /\ mResult.webTime = countType(mSlices, {"WEB_DISTRACTION"})
        /\ mResult.absentTime = countType(mSlices, {"ABSENT", "LOOKING_AWAY"})

\* a FOCUSED slice of type PHONE and a PARTIAL slice of type ABSENT are counted
C22_Witness ==
    /\ mResult # NULL /\ Len(mSlices) = 2
    /\ mSlices[1].status = "FOCUSED" /\ mSlices[1].distractionType = "PHONE"
    /\ mSlices[2].status = "PARTIAL" /\ mSlices[2].distractionType = "ABSENT"
    /\ mResult.phoneTime = 1 /\ mResult.absentTime = 1

\* the positions of the slices that carry the domain
carrying(slices, domain) ==
    { i \in 1..Len(slices) : hasDomain(slices[i]) /\ slices[i].metadata.domain = domain }

\* the domains that occur in the metadata of some slice
domainsOf(slices) ==
    { slices[i].metadata.domain : i \in { j \in 1..Len(slices) : hasDomain(slices[j]) } }

lastOf(positions) == CHOOSE i \in positions : \A j \in positions : j <= i

\* C23: in the site table each domain's duration is the number of slices
\* carrying that domain, and its category is that of the last such slice:
\* NON_STUDY if its distractionType is WEB_DISTRACTION, otherwise STUDY;
\* slices without a domain contribute to no entry. Five (FOCUSED, NONE)
\* slices and five (DISTRACTED, WEB_DISTRACTION) slices on youtube.com give
\* the single entry youtube.com, NON_STUDY, 5.
C23_SiteTable ==
    mResult # NULL =>
        /\ \A k \in 1..Len(mResult.topSites) :
              LET site == mResult.topSites[k]
                  at   == carrying(mSlices, site.domain)
              IN  /\ at # {}
                  /\ site.duration = Cardinality(at)
                  /\ site.category =
                        IF mSlices[lastOf(at)].distractionType = "WEB_DISTRACTION"
                            THEN "NON_STUDY" ELSE "STUDY"
        /\ mSlices = Run(mkSlice("FOCUSED", "NONE", NULL), 5)
                       \o Run(mkSlice("DISTRACTED", "WEB_DISTRACTION",
                                      [url |-> "https://youtube.com", domain |-> "youtube.com"]), 5)
              => mResult.topSites =
                    <<[domain |-> "youtube.com", category |-> "NON_STUDY", duration |-> 5]>>

\* a domain seen first on a WEB_DISTRACTION slice, then on another, is STUDY
C23_Witness ==
    /\ mResult # NULL /\ Len(mSlices) = 2
    /\ hasDomain(mSlices[1]) /\ hasDomain(mSlices[2])
    /\ mSlices[1].metadata.domain = mSlices[2].metadata.domain
    /\ mSlices[1].distractionType = "WEB_DISTRACTION"
    /\ mSlices[2].distractionType = "NONE"
    /\ mResult.topSites[1].category = "STUDY" /\ mResult.topSites[1].duration = 2

\* C24: topSites lists every domain that occurs in some slice's metadata
\* exactly once, ordered by non-increasing duration, and the durations sum to
\* the number of slices that carry a domain.
C24_TopSites ==
    mResult # NULL =>
        LET sites == mResult.topSites
        IN  /\ { sites[k].domain : k \in 1..Len(sites) } = domainsOf(mSlices)
            /\ \A k, l \in 1..Len(sites) : sites[k].domain = sites[l].domain => k = l
            /\ \A k \in 1..(Len(sites) - 1) : sites[k].duration >= sites[k + 1].duration
            /\ Sum([k \in 1..Len(sites) |-> sites[k].duration])
                  = Cardinality({ i \in 1..Len(mSlices) : hasDomain(mSlices[i]) })

\* two domains, the one seen first with the shorter duration, listed second
C24_Witness ==
    /\ mResult # NULL /\ Len(mResult.topSites) = 2
    /\ hasDomain(mSlices[1])
    /\ mResult.topSites[2].domain = mSlices[1].metadata.domain
    /\ mResult.topSites[1].duration > mResult.topSites[2].duration

\* the double of a count
exactly(m) == [hi |-> m * Pow2(18), mid |-> 0, lo |-> 0, exp |-> 0]

\* the double x equals the count m
isCount(x, m) == x.mid = 0 /\ x.lo = 0 /\ x.hi = m * Pow2(18 - x.exp)

\* distractionRatio * totalDuration in doubles, for a ratio num / den of counts
\* num <= den: 0 * c and 1 * c are exact, otherwise the quotient and the
\* product each round
ratioTimes(ratio, c) ==
    IF ratio.num = 0 THEN exactly(0)
    ELSE IF ratio.num = ratio.den \/ c = 1 THEN exactly(c)
    ELSE fmul(fdiv(ratio.num, ratio.den), c)

C26_Updates ==
    { updateOf(event.url, event.title) :
        event \in { m \in Messages : /\ m.fromWindow
                                    /\ m.type = "INTELLI_STUDY_UPDATE"
                                    /\ hostname(m.url) # NULL } }

\* C26: BrowserState changes only when an update with a parsable URL arrives
\* from the window with type INTELLI_STUDY_UPDATE, or by a simulation button;
\* a message from another source, of another type or with an unparsable URL
\* leaves it unchanged; every slice a wakeup emits carries the url and domain
\* of the last BrowserState known at that wakeup.
C26_BrowserStateSource ==
    [][/\ browserState' # browserState =>
              browserState' \in {SIM_STUDY_STATE, SIM_DISTRACTION_STATE} \cup C26_Updates
       /\ browserStateRef' = browserState'
       /\ emits => \A i \in 1..Len(batch) :
                      batch[i].metadata = [url |-> browserState.url,
                                           domain |-> browserState.domain]]_vars

\* an update arrived during the session: the first slice was recorded before
\* it, the last one after it with the updated site, and a later message (which
\* marks the extension connected) did not change the state again
C26_Witness ==
    /\ browserState \in C26_Updates /\ isExtensionConnected
    /\ Len(appended) >= 2
    /\ appended[1].metadata.domain = DEFAULT_BROWSER_STATE.domain
    /\ appended[Len(appended)].metadata.domain = browserState.domain

\* C27: in every state after a session has been started, elapsedSeconds equals
\* the number of slices of the current session (both are reset by start and
\* grow by the same secondsPassed on every emitting wakeup).
C27_ElapsedIsSliceCount ==
    sessionData.startTime # NoTime => elapsedSeconds = Len(sessionData.slices)

\* C28: slices are appended only while RUNNING; in every other state no
\* sampler timer is active, no append is pending and the slice sequence does
\* not change, except that starting a new session empties it; at most one
\* sampler timer is active at any time.
C28_SamplerOnlyWhileRunning ==
    /\ [](/\ interval <= 1
          /\ appState # "RUNNING" => (interval = 0 /\ pendSlices = <<>>))
    /\ [][/\ emits => (appState = "RUNNING" /\ interval = 1)
          /\ appState # "RUNNING" =>
                \/ sessionData'.slices = sessionData.slices
                \/ startsSession /\ sessionData'.slices = <<>>]_vars

\* paused with slices recorded: no timer, the sequence stands still
C28_Witness ==
    /\ appState = "PAUSED" /\ interval = 0
    /\ Len(sessionData.slices) > 0

\* the domains a BrowserState can carry: those of the default state, of the
\* simulation buttons and of every message URL that parses
C29_Domains ==
    {DEFAULT_BROWSER_STATE.domain, SIM_STUDY_STATE.domain, SIM_DISTRACTION_STATE.domain}
    \cup { hostname(m.url).hostname : m \in { e \in Messages : hostname(e.url) # NULL } }

\* classifyDomain of each of them, evaluated once
C29_ClassOf == [d \in C29_Domains |-> classifyDomain(d)]

\* C29: in every reachable state the category of the BrowserState is
\* classifyDomain of its domain (default state, simulation buttons, updates).
C29_CategoryOfDomain ==
    browserState.category = C29_ClassOf[browserState.domain]

\* the state an extension update has set, on a site of neither list
C29_Witness ==
    /\ isExtensionConnected
    /\ browserState.domain = "news.example.com" /\ browserState.category = "NEUTRAL"

countPair(slices, st, ty) ==
    Cardinality({ i \in 1..Len(slices) :
                    slices[i].status = st /\ slices[i].distractionType = ty })

\* C30: for the session the sampler recorded, as the Dashboard summarises it,
\* each DISTRACTED slice is counted in exactly one of phoneTime, webTime and
\* absentTime; phoneTime + webTime + absentTime is the number of DISTRACTED
\* slices plus the number of (PARTIAL, LOOKING_AWAY) slices; and focusedTime +
\* phoneTime + webTime + absentTime + the number of (PARTIAL, NONE) slices is
\* totalDuration.
C30_PieCoversSession ==
    appState = "SUMMARY" =>
        LET slices  == sessionData.slices
            metrics == calculateSessionMetrics(slices)
            pie(m)  == m.phoneTime + m.webTime + m.absentTime
        IN  /\ \A i \in 1..Len(slices) :
                   slices[i].status = "DISTRACTED" =>
                       pie(calculateSessionMetrics(<<slices[i]>>)) = 1
            /\ pie(metrics) = countStatus(slices, "DISTRACTED")
                              + countPair(slices, "PARTIAL", "LOOKING_AWAY")
            /\ metrics.focusedTime + pie(metrics)
                   + countPair(slices, "PARTIAL", "NONE") = metrics.totalDuration

\* a summarised session with a DISTRACTED slice and a (PARTIAL, LOOKING_AWAY) one
C30_Witness ==
    /\ appState = "SUMMARY"
    /\ countStatus(sessionData.slices, "DISTRACTED") > 0
    /\ countPair(sessionData.slices, "PARTIAL", "LOOKING_AWAY") > 0

=============================================================================
